---------------------------- MODULE Spec2Model ----------------------------
(***************************************************************************)
(* A model of eos-tzdata/update.py: the IANA-version translation, the      *)
(* update gate, the byte-literal encoder and the packaging run.            *)
(*                                                                         *)
(* A Python str is modelled as a sequence of code points (integers), a     *)
(* bytes object as a sequence of integers in 0..255.  Only ASCII code      *)
(* points occur in the inputs of the model.                                *)
(***************************************************************************)
EXTENDS Integers, Sequences, FiniteSets, TLC

VARIABLES
    call,       \* the function being called and its arguments
    result,     \* what the call returned or raised ("pending" before it ran)
    fs,         \* the files the program reads and writes
    pre,        \* history: fs and completed as they were when the last run began
    completed   \* history: the IANA versions whose update_package run returned

vars == <<call, result, fs, pre, completed>>

---------------------------------------------------------------------------
(* Bounds of the model                                                     *)

\* the longest letter suffix of an IANA version string that is enumerated
MaxLetters == 3
\* the largest patch number of an enumerated (year, patch) pair
MaxPatch == 11
\* the longest enumerated byte sequence over SampleBytes
MaxBlobLen == 3
\* the longest enumerated zone-name list
MaxZones == 3

---------------------------------------------------------------------------
(* Python built-ins used by the program                                    *)

Range(s) == {s[i] : i \in 1..Len(s)}

Min(a, b) == IF a <= b THEN a ELSE b

\* s[lo:hi] for 0 <= lo, 0 <= hi
Slice(s, lo, hi) == SubSeq(s, lo + 1, Min(hi, Len(s)))

\* s[lo:]
SliceFrom(s, lo) == SubSeq(s, lo + 1, Len(s))

IsDigitChar(c) == c \in 48..57

IsAlphaChar(c) == c \in 65..90 \/ c \in 97..122

\* str.isdigit(): non-empty and every character a digit
isdigit(s) == Len(s) > 0 /\ \A i \in 1..Len(s) : IsDigitChar(s[i])

\* str.isalpha(): non-empty and every character a letter, of either case
isalpha(s) == Len(s) > 0 /\ \A i \in 1..Len(s) : IsAlphaChar(s[i])

\* the characters str.strip() and int() treat as white space
IsSpaceChar(c) == c \in 9..13 \/ c \in 28..32

RECURSIVE lstrip(_)
lstrip(s) == IF Len(s) > 0 /\ IsSpaceChar(s[1]) THEN lstrip(Tail(s)) ELSE s

RECURSIVE rstrip(_)
rstrip(s) ==
    IF Len(s) > 0 /\ IsSpaceChar(s[Len(s)])
    THEN rstrip(SubSeq(s, 1, Len(s) - 1))
    ELSE s

\* str.strip()
strip(s) == rstrip(lstrip(s))

\* str.split(sep) for a one-character separator: always at least one field
RECURSIVE split(_, _)
split(s, sep) ==
    IF \A i \in 1..Len(s) : s[i] # sep
    THEN <<s>>
    ELSE LET k == CHOOSE i \in 1..Len(s) :
                      s[i] = sep /\ \A j \in 1..(i - 1) : s[j] # sep
         IN  <<SubSeq(s, 1, k - 1)>> \o split(SliceFrom(s, k), sep)

\* the decimal digits of n >= 0
RECURSIVE Digits(_)
Digits(n) == IF n < 10 THEN <<48 + n>> ELSE Digits(n \div 10) \o <<48 + (n % 10)>>

\* format(n, 'd')
FormatD(n) == IF n < 0 THEN <<45>> \o Digits(0 - n) ELSE Digits(n)

\* the value of a non-empty run of digits and underscores
RECURSIVE DigitsValue(_)
DigitsValue(s) ==
    IF Len(s) = 0 THEN 0
    ELSE IF s[Len(s)] = 95 THEN DigitsValue(SubSeq(s, 1, Len(s) - 1))
    ELSE 10 * DigitsValue(SubSeq(s, 1, Len(s) - 1)) + (s[Len(s)] - 48)

\* whether int() accepts the unsigned part: digits, single underscores between them
IsIntBody(s) ==
    /\ Len(s) > 0
    /\ \A i \in 1..Len(s) : IsDigitChar(s[i]) \/ s[i] = 95
    /\ IsDigitChar(s[1]) /\ IsDigitChar(s[Len(s)])
    /\ \A i \in 1..(Len(s) - 1) : ~(s[i] = 95 /\ s[i + 1] = 95)

IntUnsigned(s) == IF Len(s) > 0 /\ s[1] \in {43, 45} THEN Tail(s) ELSE s

\* whether int(s) raises ValueError
IntRaises(s) == ~IsIntBody(IntUnsigned(strip(s)))

\* int(s), where it does not raise
IntValue(s) ==
    LET t == strip(s)
    IN  IF Len(t) > 0 /\ t[1] = 45
        THEN 0 - DigitsValue(Tail(t))
        ELSE DigitsValue(IntUnsigned(t))

\* tuple <= tuple, on tuples of integers
RECURSIVE TupleLeq(_, _)
TupleLeq(a, b) ==
    IF Len(a) = 0 THEN TRUE
    ELSE IF Len(b) = 0 THEN FALSE
    ELSE IF a[1] # b[1] THEN a[1] < b[1]
    ELSE TupleLeq(Tail(a), Tail(b))

\* str < str: by code point, a proper prefix first
RECURSIVE StrLess(_, _)
StrLess(a, b) ==
    IF Len(b) = 0 THEN FALSE
    ELSE IF Len(a) = 0 THEN TRUE
    ELSE IF a[1] # b[1] THEN a[1] < b[1]
    ELSE StrLess(Tail(a), Tail(b))

\* what a call returns or raises
Return(v) == [exc |-> "none", value |-> v]
Raise(e) == [exc |-> e, value |-> <<>>]
Pending == [exc |-> "pending", value |-> <<>>]
NoCall == [fn |-> "none"]

\* a file: present with a text, or absent
File(text) == [exists |-> TRUE, text |-> text]
Absent == [exists |-> FALSE, text |-> <<>>]

---------------------------------------------------------------------------
(* translate_version                                                       *)

\* final_patch_number = ord(patch_letters[-1]) - ord('a') + 1
final_patch_number(patch_letters) == patch_letters[Len(patch_letters)] - 97 + 1

\* a rollover that counts the final letter among the 'z's
patch_number_every_letter(patch_letters) ==
    (26 * Len(patch_letters)) + final_patch_number(patch_letters)

\* patch_number = (26 * (len(patch_letters) - 1)) + final_patch_number
patch_number(patch_letters) ==
    (26 * (Len(patch_letters) - 1)) + final_patch_number(patch_letters)

translate_version(iana_version) ==
    IF \/ Len(iana_version) < 5
       \/ ~isdigit(Slice(iana_version, 0, 4))
       \/ ~isalpha(SliceFrom(iana_version, 4))
    THEN Raise("ValueError")
    ELSE LET version_year == Slice(iana_version, 0, 4)
             patch_letters == SliceFrom(iana_version, 4)
         IN  IF /\ Len(patch_letters) > 1
                /\ ~(\A i \in 1..(Len(patch_letters) - 1) : patch_letters[i] = 122)
             THEN Raise("ValueError")
             ELSE Return(version_year \o <<46>> \o FormatD(patch_number(patch_letters)))


---------------------------------------------------------------------------
(* is_already_latest_version                                               *)

\* the directories a relative path can resolve against: the directory that
\* holds update.py (REPO_ROOT) and any other working directory
REPO_ROOT == "repo_root"
Dirs == {REPO_ROOT, "elsewhere"}

\* tuple(map(int, s.split('.'))) raises ValueError when a field is no integer
IntTupleRaises(s) ==
    LET fields == split(s, 46) IN \E i \in 1..Len(fields) : IntRaises(fields[i])

\* tuple(map(int, s.split('.')))
IntTuple(s) ==
    LET fields == split(s, 46) IN [i \in 1..Len(fields) |-> IntValue(fields[i])]

\* a comparison of the two texts character by character, never of their numbers
is_already_latest_version_text(version, cwd, files) ==
    LET f == files.VERSION[cwd]
    IN  IF ~f.exists
        THEN Return(FALSE)
        ELSE Return(version = strip(f.text) \/ StrLess(version, strip(f.text)))

\* open('VERSION') names the file in the working directory of the process
is_already_latest_version(version, cwd, files) ==
    LET f == files.VERSION[cwd]
    IN  IF ~f.exists
        THEN Return(FALSE)
        ELSE LET other == strip(f.text)
             IN  IF IntTupleRaises(version) \/ IntTupleRaises(other)
                 THEN Raise("ValueError")
                 ELSE Return(TupleLeq(IntTuple(version), IntTuple(other)))

---------------------------------------------------------------------------
(* python_bytes_to_rust and convert_to_rust_struct                         *)

\* one digit of format(a, 'x'): 0-9, then lowercase a-f
HexDigit(d) == IF d < 10 THEN 48 + d ELSE 87 + d

\* f'\\x{a:02x}' for a byte a
HexEscape(a) == <<92, 120, HexDigit(a \div 16), HexDigit(a % 16)>>

\* an escaping that lets the backslash through as itself
EscapeByte_raw_backslash(a) ==
    IF 127 >= a /\ a >= 32 /\ a # 34 THEN <<a>> ELSE HexEscape(a)

\* chr(a) if 0x7F >= a >= 0x20 and a not in (0x22, 0x5C) else f'\\x{a:02x}'
EscapeByte(a) ==
    IF 127 >= a /\ a >= 32 /\ a \notin {34, 92} THEN <<a>> ELSE HexEscape(a)

\* ''.join(... for a in b)
RECURSIVE JoinEscaped(_)
JoinEscaped(b) ==
    IF Len(b) = 0 THEN <<>> ELSE EscapeByte(Head(b)) \o JoinEscaped(Tail(b))

\* f'b"{inner}"'
python_bytes_to_rust(b) == <<98, 34>> \o JoinEscaped(b) \o <<34>>

\* f'    ZoneEntry {{ zone: "{name}", data: {python_bytes_to_rust(tzif)} }},\n'
convert_to_rust_struct(name, tzif) ==
    <<32, 32, 32, 32, 90, 111, 110, 101, 69, 110, 116, 114, 121, 32, 123, 32, 122,
      111, 110, 101, 58, 32, 34>>
    \o name
    \o <<34, 44, 32, 100, 97, 116, 97, 58, 32>>
    \o python_bytes_to_rust(tzif)
    \o <<32, 125, 44, 10>>

---------------------------------------------------------------------------
(* update_package                                                          *)

\* the compiled zoneinfo directory of the run: what (zoneinfo_dir / name) is.
\*   "A"    a directory            "A/B"  a file, b'TZif\x00"'
\*   "B"    a file, b'\\\xff'      "a"    an empty file
\*   'B"'   a file, b'\x7f'        ""     the directory itself
\* Any other name does not exist.
ZoneFile(name) ==
    CASE name = <<65, 47, 66>> -> [is_file |-> TRUE, data |-> <<84, 90, 105, 102, 0, 34>>]
      [] name = <<66>>         -> [is_file |-> TRUE, data |-> <<92, 255>>]
      [] name = <<97>>         -> [is_file |-> TRUE, data |-> <<>>]
      [] name = <<66, 34>>     -> [is_file |-> TRUE, data |-> <<127>>]
      [] OTHER                 -> [is_file |-> FALSE, data |-> <<>>]

\* the place of x in an ascending list: behind every element that is not greater
RECURSIVE InsertSorted(_, _)
InsertSorted(s, x) ==
    IF Len(s) = 0 THEN <<x>>
    ELSE IF StrLess(x, s[1]) THEN <<x>> \o s
    ELSE <<s[1]>> \o InsertSorted(Tail(s), x)

\* the list as it was given, not sorted
sorted_as_given(zonenames) == zonenames

\* sorted(zonenames): ascending by str <, stable
RECURSIVE sorted(_)
sorted(zonenames) ==
    IF Len(zonenames) = 0 THEN <<>>
    ELSE InsertSorted(sorted(SubSeq(zonenames, 1, Len(zonenames) - 1)),
                      zonenames[Len(zonenames)])

\* the keys of the dict comprehension, in insertion order: the names that are
\* regular files, a name that comes again keeping its first place
RECURSIVE zone_to_bytes_keys(_)
zone_to_bytes_keys(zonenames) ==
    IF Len(zonenames) = 0 THEN <<>>
    ELSE LET front == zone_to_bytes_keys(SubSeq(zonenames, 1, Len(zonenames) - 1))
             name == zonenames[Len(zonenames)]
         IN  IF ZoneFile(name).is_file /\ name \notin Range(front)
             THEN Append(front, name)
             ELSE front

\* ''.join(data), data the list of convert_to_rust_struct(name, tzif)
RECURSIVE JoinEntries(_)
JoinEntries(keys) ==
    IF Len(keys) = 0 THEN <<>>
    ELSE convert_to_rust_struct(Head(keys), ZoneFile(Head(keys)).data)
         \o JoinEntries(Tail(keys))

\* DATA_TEMPLATE_FILE.format(length=length, version=version, data=data)
DATA_TEMPLATE_FILE(version, length, data) ==
    \* "// This file is automatically generated\n// Please do not touch it.\n"
    \* "// The data in this file corresponds to the IANA database version "
    <<47, 47, 32, 84, 104, 105, 115, 32, 102, 105, 108, 101, 32, 105, 115, 32, 97,
      117, 116, 111, 109, 97, 116, 105, 99, 97, 108, 108, 121, 32, 103, 101, 110,
      101, 114, 97, 116, 101, 100, 10, 47, 47, 32, 80, 108, 101, 97, 115, 101, 32,
      100, 111, 32, 110, 111, 116, 32, 116, 111, 117, 99, 104, 32, 105, 116, 46, 10,
      47, 47, 32, 84, 104, 101, 32, 100, 97, 116, 97, 32, 105, 110, 32, 116, 104,
      105, 115, 32, 102, 105, 108, 101, 32, 99, 111, 114, 114, 101, 115, 112, 111,
      110, 100, 115, 32, 116, 111, 32, 116, 104, 101, 32, 73, 65, 78, 65, 32, 100,
      97, 116, 97, 98, 97, 115, 101, 32, 118, 101, 114, 115, 105, 111, 110, 32>>
    \o version
    \* "\n\nuse crate::ZoneEntry;\n\npub const MAPPINGS: [ZoneEntry; "
    \o <<10, 10, 117, 115, 101, 32, 99, 114, 97, 116, 101, 58, 58, 90, 111, 110,
         101, 69, 110, 116, 114, 121, 59, 10, 10, 112, 117, 98, 32, 99, 111, 110,
         115, 116, 32, 77, 65, 80, 80, 73, 78, 71, 83, 58, 32, 91, 90, 111, 110,
         101, 69, 110, 116, 114, 121, 59, 32>>
    \o FormatD(length)
    \* "] = [\n"
    \o <<93, 32, 61, 32, 91, 10>>
    \o data
    \* "\n];\n"
    \o <<10, 93, 59, 10>>

\* the text written to src/data.rs for a version and a zone-name list
data_rs_text(version, zonenames) ==
    LET keys == zone_to_bytes_keys(sorted(zonenames))
    IN  DATA_TEMPLATE_FILE(version, Len(keys), JoinEntries(keys))

\* 'version = "1.'
CargoVersionPrefix == <<118, 101, 114, 115, 105, 111, 110, 32, 61, 32, 34, 49, 46>>

\* the length of the longest run of digits of line that starts at index from
RECURSIVE DigitRun(_, _)
DigitRun(line, from) ==
    IF from <= Len(line) /\ IsDigitChar(line[from])
    THEN 1 + DigitRun(line, from + 1)
    ELSE 0

\* how many characters CARGO_TOML_VERSION matches at the start of a line, 0
\* when it does not match: version = "1.<4 or more digits>.<digits>"
CARGO_TOML_VERSION(line) ==
    LET p == Len(CargoVersionPrefix)
        y == DigitRun(line, p + 1)
        n == DigitRun(line, p + y + 2)
        end == p + y + 1 + n + 1
    IN  IF /\ Len(line) >= end
           /\ SubSeq(line, 1, p) = CargoVersionPrefix
           /\ y >= 4
           /\ line[p + y + 1] = 46
           /\ n >= 1
           /\ line[end] = 34
        THEN end
        ELSE 0

\* CARGO_TOML_VERSION.sub(f'version = "1.{package_version}"', contents, count=1)
RECURSIVE cargo_sub(_, _)
cargo_sub(contents, package_version) ==
    IF Len(contents) = 0 THEN <<>>
    ELSE LET m == CARGO_TOML_VERSION(contents[1])
         IN  IF m > 0
             THEN <<CargoVersionPrefix \o package_version \o <<34>>
                    \o SliceFrom(contents[1], m)>> \o Tail(contents)
             ELSE <<contents[1]>> \o cargo_sub(Tail(contents), package_version)

\* the I/O step of a run at which the operating system reports an error:
\* reading a zone file, or writing one of the three files.  A failed write
\* leaves a file opened with 'w' truncated and nothing of the new text in it,
\* and a file opened with 'r+' as it was.
Faults == {"none", "read_zone", "write_data", "write_version", "write_cargo"}

Outcome(res, files) == [result |-> res, fs |-> files]

\* update_package(version, zonenames, zoneinfo_dir) run in working directory
\* cwd on the files `files`; returns what it returned or raised and the files
\* it leaves.  The value "skipped" or "updated" tells the two ways of
\* returning None apart.
update_package(version, zonenames, cwd, fault, files) ==
    LET package_version == translate_version(version)
    IN
    IF package_version.exc # "none" THEN Outcome(package_version, files) ELSE
    LET pv == package_version.value
        latest == is_already_latest_version(pv, cwd, files)
    IN
    IF latest.exc # "none" THEN Outcome(latest, files) ELSE
    IF latest.value THEN Outcome(Return("skipped"), files) ELSE
    IF fault = "read_zone" /\ Len(zone_to_bytes_keys(sorted(zonenames))) > 0
    THEN Outcome(Raise("OSError"), files) ELSE
    IF fault = "write_data"
    THEN Outcome(Raise("OSError"), [files EXCEPT !.data_rs = File(<<>>)]) ELSE
    LET files1 == [files EXCEPT !.data_rs = File(data_rs_text(version, zonenames))]
    IN
    IF fault = "write_version"
    THEN Outcome(Raise("OSError"), [files1 EXCEPT !.VERSION[REPO_ROOT] = File(<<>>)])
    ELSE
    LET files2 == [files1 EXCEPT !.VERSION[REPO_ROOT] = File(pv)]
    IN
    IF fault = "write_cargo" \/ ~files2.Cargo_toml.exists
    THEN Outcome(Raise("OSError"), files2)
    ELSE Outcome(Return("updated"),
                 [files2 EXCEPT !.Cargo_toml = File(cargo_sub(@.text, pv))])

---------------------------------------------------------------------------
(* The state before anything ran                                           *)

\* Cargo.toml as the repository ships it, line by line:
\*   [package] / name = "eos-tzdata" / version = "1.2020.1" / edition = "2021"
InitialCargoToml ==
    << <<91, 112, 97, 99, 107, 97, 103, 101, 93>>,
       <<110, 97, 109, 101, 32, 61, 32, 34, 101, 111, 115, 45, 116, 122, 100, 97,
         116, 97, 34>>,
       <<118, 101, 114, 115, 105, 111, 110, 32, 61, 32, 34, 49, 46, 50, 48, 50, 48,
         46, 49, 34>>,
       <<101, 100, 105, 116, 105, 111, 110, 32, 61, 32, 34, 50, 48, 50, 49, 34>> >>

\* a checkout in which nothing was generated yet
FreshFiles ==
    [VERSION |-> [d \in Dirs |-> Absent],
     data_rs |-> Absent,
     Cargo_toml |-> File(InitialCargoToml)]

NoHistory == [fs |-> FreshFiles, completed |-> {}]

SeqsUpTo(S, n) == UNION {[1..k -> S] : k \in 0..n}

---------------------------------------------------------------------------
(* Specification of translate_version over enumerated strings              *)

\* "2020", "1996", "202", "20a0", ""
VersionHeads ==
    {<<50, 48, 50, 48>>, <<49, 57, 57, 54>>, <<50, 48, 50>>, <<50, 48, 97, 48>>, <<>>}

\* 'a', 'b', 'z', 'A', '0', '.'
VersionTailChars == {97, 98, 122, 65, 48, 46}

VersionInputs ==
    {h \o t : h \in VersionHeads, t \in SeqsUpTo(VersionTailChars, MaxLetters)}

InitTranslate ==
    /\ call \in {[fn |-> "translate_version", iana_version |-> s] : s \in VersionInputs}
    /\ result = Pending
    /\ fs = FreshFiles
    /\ pre = NoHistory
    /\ completed = {}

TranslateVersion ==
    /\ call.fn = "translate_version"
    /\ result = Pending
    /\ result' = translate_version(call.iana_version)
    /\ UNCHANGED <<call, fs, pre, completed>>

NextTranslate == TranslateVersion

SpecTranslate == InitTranslate /\ [][NextTranslate]_vars

---------------------------------------------------------------------------
(* Specification of is_already_latest_version over enumerated markers      *)

GateYears == {2020, 2021}
GatePatches == 1..MaxPatch \cup {99}

\* the letter suffix of the p-th release of a year: a..z, za..zz, zza.. (tz-link)
PatchLetters(p) ==
    [i \in 1..((p - 1) \div 26) |-> 122] \o <<97 + ((p - 1) % 26)>>

\* the package versions update_package passes to the gate and writes to VERSION
GateVersions ==
    {translate_version(FormatD(y) \o PatchLetters(p)).value :
        y \in GateYears, p \in GatePatches}

\* "", "abc", "2021", "2021.", "2021.x", "2021.1.5", ".", "2021-1", "\n"
MalformedMarkers ==
    {<<>>, <<97, 98, 99>>, <<50, 48, 50, 49>>, <<50, 48, 50, 49, 46>>,
     <<50, 48, 50, 49, 46, 120>>, <<50, 48, 50, 49, 46, 49, 46, 53>>, <<46>>,
     <<50, 48, 50, 49, 45, 49>>, <<10>>}

GateMarkers ==
    {Absent} \cup {File(v) : v \in GateVersions}
             \cup {File(v \o <<10>>) : v \in GateVersions}
             \cup {File(m) : m \in MalformedMarkers}

InitGate ==
    /\ call \in {[fn |-> "is_already_latest_version", version |-> v, cwd |-> d] :
                    v \in GateVersions, d \in Dirs}
    /\ result = Pending
    /\ \E m \in GateMarkers :
          fs = [FreshFiles EXCEPT !.VERSION[call.cwd] = m]
    /\ pre = NoHistory
    /\ completed = {}

IsAlreadyLatestVersion ==
    /\ call.fn = "is_already_latest_version"
    /\ result = Pending
    /\ result' = is_already_latest_version(call.version, call.cwd, fs)
    /\ UNCHANGED <<call, fs, pre, completed>>

NextGate == IsAlreadyLatestVersion

SpecGate == InitGate /\ [][NextGate]_vars

---------------------------------------------------------------------------
(* Claims about translate_version                                          *)

Translated == call.fn = "translate_version" /\ result.exc # "pending"

\* a valid IANA version: 4 digits, then k >= 0 letters 'z', then one of a..z
ValidIana(s) ==
    /\ Len(s) >= 5
    /\ \A i \in 1..4 : s[i] \in 48..57
    /\ \A i \in 5..(Len(s) - 1) : s[i] = 122
    /\ s[Len(s)] \in 97..122

\* the number a text of decimal digits denotes, -1 when it is no such text
RECURSIVE Decimal(_)
Decimal(s) ==
    IF Len(s) = 0 \/ \E i \in 1..Len(s) : s[i] \notin 48..57 THEN -1
    ELSE IF Len(s) = 1 THEN s[1] - 48
    ELSE 10 * Decimal(SubSeq(s, 1, Len(s) - 1)) + (s[Len(s)] - 48)

\* the text "{year}.{patch}" for numbers year and patch
RECURSIVE DecimalText(_)
DecimalText(n) ==
    IF n < 10 THEN <<48 + n>> ELSE DecimalText(n \div 10) \o <<48 + (n % 10)>>
PairText(year, patch) == DecimalText(year) \o <<46>> \o DecimalText(patch)

\* translate_version("2020" + letters) returned "2020." + the digits of patch
TranslatesTo(letters, patch) ==
    call.iana_version = <<50, 48, 50, 48>> \o letters
        => result = Return(PairText(2020, patch))

\* C1: for every valid IANA version (4 digits, k letters 'z', a final letter c)
\* translate_version returns "{year}.{patch}" with year the first four
\* characters and patch = 26 * k + (position of c in the alphabet) > 0;
\* a -> 1, z -> 26, za -> 27, zz -> 52, zza -> 53.
C1_TranslateValid ==
    (Translated /\ ValidIana(call.iana_version)) =>
        LET s == call.iana_version
            k == Len(s) - 5
            patch == 26 * k + (s[Len(s)] - 96)
        IN  /\ result.exc = "none"
            /\ Len(result.value) >= 6
            /\ SubSeq(result.value, 1, 4) = SubSeq(s, 1, 4)
            /\ result.value[5] = 46
            /\ Decimal(SubSeq(result.value, 6, Len(result.value))) = patch
            /\ patch > 0
            /\ TranslatesTo(<<97>>, 1)
            /\ TranslatesTo(<<122>>, 26)
            /\ TranslatesTo(<<122, 97>>, 27)
            /\ TranslatesTo(<<122, 122>>, 52)
            /\ TranslatesTo(<<122, 122, 97>>, 53)

\* "2020zza" was translated, to "2020.53"
C1_Witness ==
    /\ Translated
    /\ call.iana_version = <<50, 48, 50, 48, 122, 122, 97>>
    /\ result = Return(<<50, 48, 50, 48, 46, 53, 51>>)

\* C2: translate_version raises for every string that is not 4 digits
\* followed by lowercase letters of which all but the last are 'z'.
C2_RejectsInvalid ==
    (Translated /\ ~ValidIana(call.iana_version)) => result.exc = "ValueError"

---------------------------------------------------------------------------
(* Claims about is_already_latest_version                                  *)

Gated == call.fn = "is_already_latest_version" /\ result.exc # "pending"

\* the marker the gate opens
GateMarker == fs.VERSION[call.cwd]

\* the marker holds "{year}.{patch}", with one trailing newline or none
MarkerHolds(year, patch) ==
    /\ GateMarker.exists
    /\ GateMarker.text \in {PairText(year, patch), PairText(year, patch) \o <<10>>}

\* the marker holds the rendering of no (year, patch) pair at all
MarkerMalformed ==
    /\ GateMarker.exists
    /\ \A i \in 0..Len(GateMarker.text), j \in 0..Len(GateMarker.text) :
          LET t == GateMarker.text
          IN  ~(/\ i >= 1 /\ j >= 1 /\ i + j + 1 \in {Len(t), Len(t) - 1}
                /\ Decimal(SubSeq(t, 1, i)) >= 0
                /\ t[i + 1] = 46
                /\ Decimal(SubSeq(t, i + 2, i + 1 + j)) >= 0
                /\ (i + j + 1 = Len(t) - 1 => t[Len(t)] = 10))

\* C3: with no recorded version the gate returns false; with a recorded
\* (year, patch) it returns true iff the candidate is less than or equal to
\* it in the lexicographic order of the pair.
C3_GateOrder ==
    Gated =>
        /\ ~GateMarker.exists => result = Return(FALSE)
        /\ \A yc \in GateYears, yr \in GateYears :
           \A pc \in GatePatches, pr \in GatePatches :
              (call.version = PairText(yc, pc) /\ MarkerHolds(yr, pr))
                  => /\ result.exc = "none"
                     /\ result.value = (yc < yr \/ (yc = yr /\ pc <= pr))

\* (2020, 99) against a recorded (2021, 1) skipped; the earlier year decides
C3_Witness ==
    /\ Gated
    /\ call.version = PairText(2020, 99)
    /\ MarkerHolds(2021, 1)
    /\ result = Return(TRUE)

\* C4: a marker that exists but is malformed is treated as absent: the gate
\* returns false and raises nothing.
C4_MalformedIsAbsent ==
    (Gated /\ MarkerMalformed) => (result.exc = "none" /\ result.value = FALSE)

---------------------------------------------------------------------------
(* Specification of python_bytes_to_rust over enumerated byte sequences    *)

\* 0x00, '"', '0', 'A', '\', 'x', 0x7F, 0xFF
SampleBytes == {0, 34, 48, 65, 92, 120, 127, 255}

\* the 32 byte values from 32 * k on, in order; k in 0..7 covers 0x00..0xFF
ByteRun(k) == [i \in 1..32 |-> 32 * k + i - 1]

Blobs ==
    SeqsUpTo(SampleBytes, MaxBlobLen) \cup {<<a>> : a \in 0..255}
        \cup {ByteRun(k) : k \in 0..7}

InitBytes ==
    /\ call \in {[fn |-> "python_bytes_to_rust", b |-> b] : b \in Blobs}
    /\ result = Pending
    /\ fs = FreshFiles
    /\ pre = NoHistory
    /\ completed = {}

PythonBytesToRust ==
    /\ call.fn = "python_bytes_to_rust"
    /\ result = Pending
    /\ result' = Return(python_bytes_to_rust(call.b))
    /\ UNCHANGED <<call, fs, pre, completed>>

NextBytes == PythonBytesToRust

SpecBytes == InitBytes /\ [][NextBytes]_vars

---------------------------------------------------------------------------
(* Specifications of update_package                                        *)

\* a run of update_package with its inputs drawn from the given sets
RunUpdatePackage(versions, zonelists, dirs, faults) ==
    \E version \in versions, zonenames \in zonelists, cwd \in dirs, fault \in faults :
        LET out == update_package(version, zonenames, cwd, fault, fs)
        IN  /\ call' = [fn |-> "update_package", version |-> version,
                        zonenames |-> zonenames, cwd |-> cwd, fault |-> fault]
            /\ result' = out.result
            /\ fs' = out.fs
            /\ pre' = [fs |-> fs, completed |-> completed]
            /\ completed' = IF out.result.exc = "none"
                            THEN completed \cup {version}
                            ELSE completed

InitRuns ==
    /\ call = NoCall
    /\ result = Pending
    /\ fs = FreshFiles
    /\ pre = NoHistory
    /\ completed = {}

\* "2021a", "2021b", "2021"
RunVersions == {<<50, 48, 50, 49, 97>>, <<50, 48, 50, 49, 98>>, <<50, 48, 50, 49>>}

\* ["B", "A/B"], ["a"]
RunZoneLists == {<< <<66>>, <<65, 47, 66>> >>, << <<97>> >>}

\* any number of runs, one after the other, from any working directory
UpdatePackage == RunUpdatePackage(RunVersions, RunZoneLists, Dirs, Faults)

Init == InitRuns

Next == UpdatePackage

Spec == Init /\ [][Next]_vars

\* "A", "A/B", "B", "a", 'B"', ""
ZoneNames == {<<65>>, <<65, 47, 66>>, <<66>>, <<97>>, <<66, 34>>, <<>>}

\* one run for "2021a" in a fresh checkout, over every zone-name list
GeneratePackage ==
    /\ result = Pending
    /\ RunUpdatePackage({<<50, 48, 50, 49, 97>>}, SeqsUpTo(ZoneNames, MaxZones),
                        {REPO_ROOT}, {"none"})

NextEncode == GeneratePackage

SpecEncode == InitRuns /\ [][NextEncode]_vars

---------------------------------------------------------------------------
(* Claims about python_bytes_to_rust                                       *)

Encoded == call.fn = "python_bytes_to_rust" /\ result.exc # "pending"

\* the value of a hexadecimal digit, -1 for any other character
HexValue(c) ==
    IF c \in 48..57 THEN c - 48
    ELSE IF c \in 97..102 THEN c - 87
    ELSE IF c \in 65..70 THEN c - 55
    ELSE -1

\* the bytes the body of a double-quoted byte string denotes, reading \xHH as
\* one byte and any other character as itself; a bare quote, or a backslash
\* that starts no \xHH, yields a -1 in the result
RECURSIVE ParseBody(_)
ParseBody(s) ==
    IF Len(s) = 0 THEN <<>>
    ELSE IF s[1] = 92
    THEN IF Len(s) >= 4 /\ s[2] = 120 /\ HexValue(s[3]) >= 0 /\ HexValue(s[4]) >= 0
         THEN <<16 * HexValue(s[3]) + HexValue(s[4])>> \o ParseBody(SubSeq(s, 5, Len(s)))
         ELSE <<-1>>
    ELSE IF s[1] = 34 THEN <<-1>>
    ELSE <<s[1]>> \o ParseBody(Tail(s))

\* the bytes a literal b"..." denotes
ParseByteString(s) ==
    IF Len(s) >= 3 /\ s[1] = 98 /\ s[2] = 34 /\ s[Len(s)] = 34
    THEN ParseBody(SubSeq(s, 3, Len(s) - 1))
    ELSE <<-1>>

\* C7: parsing the literal python_bytes_to_rust(b) as a double-quoted byte
\* string with \xHH escapes yields exactly b, for every byte sequence b.
C7_ByteRoundTrip ==
    Encoded => ParseByteString(result.value) = call.b

\* the bytes 0x60..0x7F were encoded, all but one literally, and parse back
C7_Witness ==
    /\ Encoded
    /\ call.b = ByteRun(3)
    /\ Len(result.value) = 3 + 32
    /\ ParseByteString(result.value) = ByteRun(3)

\* what C9 says one byte becomes
LiteralOrEscape(a) ==
    IF a \in 32..126 /\ a \notin {34, 92}
    THEN <<a>>
    ELSE <<92, 120,
           (IF a \div 16 < 10 THEN 48 + (a \div 16) ELSE 87 + (a \div 16)),
           (IF a % 16 < 10 THEN 48 + (a % 16) ELSE 87 + (a % 16))>>

\* C9: a byte is emitted literally iff it is in 0x20..0x7E and neither the
\* quote nor the backslash; every other byte becomes \xHH, lowercase.
C9_LiteralRange ==
    (Encoded /\ Len(call.b) = 1) =>
        result.value = <<98, 34>> \o LiteralOrEscape(call.b[1]) \o <<34>>

---------------------------------------------------------------------------
(* Claims about update_package                                             *)

Ran == call.fn = "update_package" /\ result.exc # "pending"

\* a is before b in the order of the raw bytes of the names
BytesBefore(a, b) ==
    \E i \in 1..Len(b) :
        /\ i <= Len(a) + 1
        /\ \A j \in 1..(i - 1) : a[j] = b[j]
        /\ (i = Len(a) + 1 \/ a[i] < b[i])

\* the rearrangements of a list
Rearrangements(s) ==
    {[i \in 1..Len(s) |-> s[f[i]]] : f \in Permutations(1..Len(s))}

\* the text of data.rs that holds exactly the entries named, in that order
TableOf(version, names) ==
    DATA_TEMPLATE_FILE(version, Len(names), JoinEntries(names))

\* C8: lists that are rearrangements of each other generate the same
\* data.rs, whose entries are in strictly ascending order of the bytes of the
\* zone name, no name twice.
C8_OrderIndependent ==
    (Ran /\ result.exc = "none") =>
        /\ \A p \in Rearrangements(call.zonenames) :
              update_package(call.version, p, call.cwd, call.fault, pre.fs).fs.data_rs
                  = fs.data_rs
        /\ \E names \in SeqsUpTo(Range(call.zonenames), Len(call.zonenames)) :
              /\ \A i \in 1..(Len(names) - 1) : BytesBefore(names[i], names[i + 1])
              /\ Range(names) = {n \in Range(call.zonenames) : ZoneFile(n).is_file}
              /\ fs.data_rs = File(TableOf(call.version, names))

\* ["a", "B", "A/B"] was given out of order and data.rs lists A/B, B, a
C8_Witness ==
    /\ Ran
    /\ call.zonenames = << <<97>>, <<66>>, <<65, 47, 66>> >>
    /\ fs.data_rs = File(TableOf(call.version, << <<65, 47, 66>>, <<66>>, <<97>> >>))

\* C10: a zone-name list with a duplicate name, or with a name holding a
\* double quote, ends the run in an error and writes nothing.
C10_ContractViolationsFatal ==
    (/\ Ran
     /\ \/ \E i, j \in 1..Len(call.zonenames) :
              i # j /\ call.zonenames[i] = call.zonenames[j]
        \/ \E i \in 1..Len(call.zonenames) : 34 \in Range(call.zonenames[i]))
    => (result.exc \notin {"none", "pending"} /\ fs = pre.fs)

\* the (year, patch) pair of a valid IANA version
IanaPair(s) == <<Decimal(SubSeq(s, 1, 4)), 26 * (Len(s) - 5) + (s[Len(s)] - 96)>>

\* the package version of v is less than or equal to that of w
PackageLeq(v, w) ==
    /\ ValidIana(v) /\ ValidIana(w)
    /\ \/ IanaPair(v)[1] < IanaPair(w)[1]
       \/ IanaPair(v)[1] = IanaPair(w)[1] /\ IanaPair(v)[2] <= IanaPair(w)[2]

\* C5: once a run for version v has completed, every later run for a version
\* whose package version is not greater skips and leaves data.rs, VERSION and
\* Cargo.toml as they were.
C5_RerunIsNoOp ==
    (Ran /\ \E v \in pre.completed : PackageLeq(call.version, v))
        => (result = Return("skipped") /\ fs = pre.fs)

\* C6: a run that fails leaves data.rs, VERSION and Cargo.toml with the
\* contents they had before the run.
C6_NoPartialArtifact ==
    (Ran /\ result.exc # "none") => fs = pre.fs

=============================================================================
